---- MODULE Spec2Model ----
(***************************************************************************)
(* Model of the ytpy transcript utilities.                                 *)
(*                                                                         *)
(*   SpecText  : the subtitle-to-text pipeline of ytmpy.py                 *)
(*               (extract_text_from_subtitles, add_paragraph_breaks, as    *)
(*               driven by convert_subtitles_to_text) and parse_vtt_file   *)
(*               of ytpybak3.py.                                           *)
(*   SpecTrack : get_transcript of ytpybak2.py, ytpl.py and ytpi.py        *)
(*               (track selection, fetch, retry, alternate method).        *)
(*   SpecBatch : main of ytpl.py (playlist mode) and of ytmpy.py, item by  *)
(*               item: download, conversion, clipboard, output file.       *)
(*                                                                         *)
(* Text is a sequence of one-character strings; a file is such a sequence  *)
(* with "\n" between its lines.                                            *)
(***************************************************************************)
EXTENDS Integers, Sequences, FiniteSets, TLC

VARIABLES
    pc,           \* position of the modelled run
    ext,          \* suffix of the subtitle file name: ".vtt" or ".srt"
    content,      \* text read from the subtitle file
    plain_text,   \* result of extract_text_from_subtitles
    add_par,      \* the add_paragraphs flag of the conversion
    out_text,     \* text written to the output file by convert_subtitles_to_text
    vtt_text,     \* result of parse_vtt_file
    variant,      \* which get_transcript runs: "ytpybak2", "ytpl" or "ytpi"
    catalog,      \* list(transcript_list): the tracks the provider lists
    languages,    \* the caller's ordered language preference
    transcript,   \* the selected track (None before/without a selection)
    attempt,      \* loop index of the retry loop (0-based, as range(max_retries))
    log,          \* provider calls and sleeps of the current call, in order
    result,       \* what get_transcript returned (None or the fetched data)
    call,         \* number of the current get_transcript call
    prev,         \* selection made by the previous call on the same inputs
    waits,        \* seconds of each time.sleep of the current call, in order
    second_pass,  \* text of a second extraction run on the extracted lines
    prog,         \* which main runs the batch: "ytpl" or "ytmpy"
    items,        \* the batch in caller order: video_ids (ytpl), urls (ytmpy)
    opts,         \* the command-line options of the run
    idx,          \* position of main's loop in the batch (1-based)
    attempted,    \* the indices main has started to process, in order
    successful,   \* successful_transcripts (ytpl), total_successful (ytmpy)
    clipboard,    \* what pyperclip.copy received, in order of the calls
    sub_langs,    \* the --sub-langs list download_subtitles built
    subtitle_files,   \* subtitle files in the output directory not yet converted
    converted_files,  \* convert_subtitles_to_text's list of written documents
    data,         \* what the provider gave for the current item
    steps,        \* the steps taken for the current item, in order: [item, video, lang, step]
    sub_dir,      \* the subtitle files present in the output directory of the current URL
    txt_dir,      \* the text documents written to the output directory of the current URL
    out_file      \* the blocks of the file of -o (ytpl.py), in file order

textVars == <<ext, content, plain_text, add_par, out_text, vtt_text, second_pass>>
trackVars == <<variant, catalog, languages, transcript, attempt, log, result, call, prev,
               waits>>
batchVars == <<prog, items, opts, idx, attempted, successful, clipboard, sub_langs,
               subtitle_files, converted_files, data, steps, sub_dir, txt_dir, out_file>>
vars == <<pc, ext, content, plain_text, add_par, out_text, vtt_text,
          variant, catalog, languages, transcript, attempt, log, result, call, prev, waits,
          second_pass, prog, items, opts, idx, attempted, successful, clipboard,
          sub_langs, subtitle_files, converted_files, data, steps, sub_dir, txt_dir,
          out_file>>

None == <<>>
Some(x) == <<x>>

(***************************************************************************)
(* Characters and the str methods the code uses.                           *)
(***************************************************************************)
Upper == {"A", "B", "C", "D", "E", "F", "G", "H", "I", "J", "K", "L", "M", "N", "O", "P", "Q", "R", "S", "T", "U", "V", "W", "X", "Y", "Z"}
Lower == {"a", "b", "c", "d", "e", "f", "g", "h", "i", "j", "k", "l", "m", "n", "o", "p", "q", "r", "s", "t", "u", "v", "w", "x", "y", "z"}
Digits == {"0", "1", "2", "3", "4", "5", "6", "7", "8", "9"}
Letters == Upper \cup Lower
Whitespace == {" ", "\t", "\n", "\r"}
NL == "\n"

WEBVTT == <<"W", "E", "B", "V", "T", "T">>
NOTE == <<"N", "O", "T", "E">>
STYLE == <<"S", "T", "Y", "L", "E">>
Arrow == <<"-", "-", ">">>
AmpEntity == <<"&", "a", "m", "p", ";">>
LtEntity == <<"&", "l", "t", ";">>
GtEntity == <<"&", "g", "t", ";">>
QuotEntity == <<"&", "q", "u", "o", "t", ";">>

RECURSIVE lstrip(_)
lstrip(s) ==
    IF s = <<>> THEN s
    ELSE IF Head(s) \in Whitespace THEN lstrip(Tail(s)) ELSE s

RECURSIVE rstrip(_)
rstrip(s) ==
    IF s = <<>> THEN s
    ELSE IF s[Len(s)] \in Whitespace THEN rstrip(SubSeq(s, 1, Len(s) - 1)) ELSE s

strip(s) == rstrip(lstrip(s))

startswith(s, p) == Len(s) >= Len(p) /\ SubSeq(s, 1, Len(p)) = p

endswith(s, p) == Len(s) >= Len(p) /\ SubSeq(s, Len(s) - Len(p) + 1, Len(s)) = p

\* p in s
contains(s, p) == \E i \in 1..(Len(s) - Len(p) + 1) : SubSeq(s, i, i + Len(p) - 1) = p

isdigit(s) == s # <<>> /\ \A i \in 1..Len(s) : s[i] \in Digits

isupper(c) == c \in Upper

\* the least element of a non-empty set of positions
Least(S) == CHOOSE i \in S : \A j \in S : i <= j

\* index of the first character of s that is in set, at or after position
\* from; 0 when there is none
find(s, set, from) ==
    LET S == {i \in from..Len(s) : s[i] \in set}
    IN  IF S = {} THEN 0 ELSE Least(S)

\* index at which the first occurrence of p in s starts; 0 when there is none
findstr(s, p) ==
    LET S == {i \in 1..(Len(s) - Len(p) + 1) : SubSeq(s, i, i + Len(p) - 1) = p}
    IN  IF S = {} THEN 0 ELSE Least(S)

\* s.split(sep) for a one-character separator
RECURSIVE split(_, _)
split(s, sep) ==
    LET i == find(s, {sep}, 1)
    IN  IF i = 0 THEN <<s>>
        ELSE <<SubSeq(s, 1, i - 1)>> \o split(SubSeq(s, i + 1, Len(s)), sep)

\* sep.join(parts)
RECURSIVE join(_, _)
join(parts, sep) ==
    IF parts = <<>> THEN <<>>
    ELSE IF Len(parts) = 1 THEN parts[1]
    ELSE parts[1] \o sep \o join(Tail(parts), sep)

\* s.replace(old, new): non-overlapping occurrences, left to right
RECURSIVE replace(_, _, _)
replace(s, old, new) ==
    LET i == findstr(s, old)
    IN  IF i = 0 THEN s
        ELSE SubSeq(s, 1, i - 1) \o new
             \o replace(SubSeq(s, i + Len(old), Len(s)), old, new)

(***************************************************************************)
(* The regular-expression substitutions of extract_text_from_subtitles.    *)
(***************************************************************************)
\* re.sub(open [^close]+ close, '', s): '<[^>]+>' and '\{[^}]+\}'.  At an
\* open character the match runs to the next close character, which must
\* not follow at once; without a match the open character is kept.
RECURSIVE RemoveDelimited(_, _, _)
RemoveDelimited(s, open, close) ==
    LET i == find(s, {open}, 1)
        j == find(s, {close}, i + 1)
    IN  IF i = 0 THEN s
        ELSE IF j > i + 1
        THEN SubSeq(s, 1, i - 1) \o RemoveDelimited(SubSeq(s, j + 1, Len(s)), open, close)
        ELSE SubSeq(s, 1, i) \o RemoveDelimited(SubSeq(s, i + 1, Len(s)), open, close)

\* length of the longest prefix of s made of characters of set
RECURSIVE RunLength(_, _)
RunLength(s, set) ==
    IF s = <<>> \/ Head(s) \notin set THEN 0 ELSE 1 + RunLength(Tail(s), set)

\* re.sub(r'&[a-zA-Z]+;', '', s)
RECURSIVE RemoveEntities(_)
RemoveEntities(s) ==
    LET i == find(s, {"&"}, 1)
        k == RunLength(SubSeq(s, i + 1, Len(s)), Letters)
    IN  IF i = 0 THEN s
        ELSE IF k >= 1 /\ Len(s) >= i + k + 1 /\ s[i + k + 1] = ";"
        THEN SubSeq(s, 1, i - 1) \o RemoveEntities(SubSeq(s, i + k + 2, Len(s)))
        ELSE SubSeq(s, 1, i) \o RemoveEntities(SubSeq(s, i + 1, Len(s)))

\* re.sub(r'[ \t]+', ' ', s): of every run of spaces and tabs the first
\* position is kept, as a space
NormalizeSpaces(s) ==
    LET blank(i) == s[i] \in {" ", "\t"}
        kept(i) == ~blank(i) \/ i = 1 \/ ~blank(i - 1)
        keep == SelectSeq([i \in 1..Len(s) |-> i], kept)
    IN  [j \in 1..Len(keep) |-> IF blank(keep[j]) THEN " " ELSE s[keep[j]]]

\* re.sub(r'\n\s*\n\s*\n+', '\n\n', s): a whitespace run that starts with a
\* newline and holds three newlines or more is cut down to two newlines, up to
\* its last newline
RECURSIVE LimitNewlines(_)
LimitNewlines(s) ==
    LET i == find(s, {NL}, 1)
        run == RunLength(SubSeq(s, i, Len(s)), Whitespace)
        nls == {k \in i..(i + run - 1) : s[k] = NL}
        last == CHOOSE k \in nls : \A m \in nls : m <= k
    IN  IF i = 0 THEN s
        ELSE IF Cardinality(nls) >= 3
        THEN SubSeq(s, 1, i - 1) \o <<NL, NL>> \o LimitNewlines(SubSeq(s, last + 1, Len(s)))
        ELSE SubSeq(s, 1, i) \o LimitNewlines(SubSeq(s, i + 1, Len(s)))

(***************************************************************************)
(* extract_text_from_subtitles (ytmpy.py)                                  *)
(***************************************************************************)
\* is_vtt = filename.endswith('.vtt') or 'WEBVTT' in content
is_vtt(e, c) == e = ".vtt" \/ contains(c, WEBVTT)

\* a flush that puts the cue before the lines emitted so far
FlushCue_Prepend(current_cue_lines, text_lines) ==
    IF current_cue_lines # <<>> /\ join(current_cue_lines, <<" ">>) # <<>>
    THEN <<join(current_cue_lines, <<" ">>)>> \o text_lines
    ELSE text_lines

\* "if current_cue_lines: cue_text = ' '.join(...); if cue_text: append"
FlushCue(current_cue_lines, text_lines) ==
    IF current_cue_lines # <<>> /\ join(current_cue_lines, <<" ">>) # <<>>
    THEN Append(text_lines, join(current_cue_lines, <<" ">>))
    ELSE text_lines

\* the guard "in_cue and not line.startswith('<') and not line.endswith('>')"
VttAcceptsLine(in_cue, line) ==
    in_cue /\ ~startswith(line, <<"<">>) /\ ~endswith(line, <<">">>)

\* the two re.sub calls of the VTT branch, then strip
VttCleanLine(line) == strip(RemoveEntities(RemoveDelimited(line, "<", ">")))

\* the two re.sub calls of the SRT branch, then strip
SrtCleanLine(line) == strip(RemoveDelimited(RemoveDelimited(line, "<", ">"), "{", "}"))

\* the for loop of the VTT branch and the flush that follows it
RECURSIVE VttScan(_, _, _, _)
VttScan(lines, in_cue, current_cue_lines, text_lines) ==
    IF lines = <<>> THEN FlushCue(current_cue_lines, text_lines)
    ELSE LET line == strip(Head(lines))
             rest == Tail(lines)
         IN  IF startswith(line, WEBVTT) \/ startswith(line, NOTE) \/ startswith(line, STYLE)
             THEN VttScan(rest, in_cue, current_cue_lines, text_lines)
             ELSE IF contains(line, Arrow)
             THEN VttScan(rest, TRUE, <<>>, FlushCue(current_cue_lines, text_lines))
             ELSE IF line = <<>>
             THEN VttScan(rest, FALSE, <<>>, FlushCue(current_cue_lines, text_lines))
             ELSE IF VttAcceptsLine(in_cue, line) /\ VttCleanLine(line) # <<>>
             THEN VttScan(rest, in_cue, Append(current_cue_lines, VttCleanLine(line)), text_lines)
             ELSE VttScan(rest, in_cue, current_cue_lines, text_lines)

\* the for loop of the SRT branch and the flush that follows it
RECURSIVE SrtScan(_, _, _)
SrtScan(lines, current_subtitle_lines, text_lines) ==
    IF lines = <<>> THEN FlushCue(current_subtitle_lines, text_lines)
    ELSE LET line == strip(Head(lines))
             rest == Tail(lines)
         IN  IF isdigit(line)
             THEN SrtScan(rest, current_subtitle_lines, text_lines)
             ELSE IF contains(line, Arrow)
             THEN SrtScan(rest, current_subtitle_lines, text_lines)
             ELSE IF line = <<>>
             THEN SrtScan(rest, <<>>, FlushCue(current_subtitle_lines, text_lines))
             ELSE IF SrtCleanLine(line) # <<>>
             THEN SrtScan(rest, Append(current_subtitle_lines, SrtCleanLine(line)), text_lines)
             ELSE SrtScan(rest, current_subtitle_lines, text_lines)

\* text_lines as built by the branch the file's format selects
ScanLines(c, e) ==
    IF is_vtt(e, c) THEN VttScan(split(c, NL), FALSE, <<>>, <<>>)
    ELSE SrtScan(split(c, NL), <<>>, <<>>)

extract_text_from_subtitles(c, e) ==
    strip(LimitNewlines(NormalizeSpaces(join(ScanLines(c, e), <<NL>>))))

(***************************************************************************)
(* add_paragraph_breaks (ytmpy.py)                                         *)
(***************************************************************************)
MinNextLen == 10

\* line.rstrip().endswith(('.', '!', '?'))
current_ends_sentence(line) ==
    \/ endswith(rstrip(line), <<".">>)
    \/ endswith(rstrip(line), <<"!">>)
    \/ endswith(rstrip(line), <<"?">>)

\* lines[i + 1].strip() and lines[i + 1].strip()[0].isupper()
next_starts_capital(next) == strip(next) # <<>> /\ isupper(strip(next)[1])

\* NextLongEnough without the short-line guard
NextLongEnough_NoGuard(next) == TRUE

\* len(lines[i + 1].strip()) > 10
NextLongEnough(next) == Len(strip(next)) > MinNextLen

\* BreakAfter without the "i < len(lines) - 1" guard and the look at the next line
BreakAfter_EverySentence(lines, i) == current_ends_sentence(lines[i])

\* whether the loop appends '' after lines[i] (1-based i)
BreakAfter(lines, i) ==
    /\ i < Len(lines)
    /\ current_ends_sentence(lines[i])
    /\ next_starts_capital(lines[i + 1])
    /\ NextLongEnough(lines[i + 1])

\* formatted_lines, built from position i on
RECURSIVE FormatLines(_, _)
FormatLines(lines, i) ==
    IF i > Len(lines) THEN <<>>
    ELSE <<lines[i]>> \o (IF BreakAfter(lines, i) THEN << <<>> >> ELSE <<>>)
         \o FormatLines(lines, i + 1)

add_paragraph_breaks(text) == join(FormatLines(split(text, NL), 1), <<NL>>)

(***************************************************************************)
(* parse_vtt_file (ytpybak3.py)                                            *)
(***************************************************************************)
\* transcript_lines: the for loop over the stripped lines
RECURSIVE VttFileLines(_)
VttFileLines(lines) ==
    IF lines = <<>> THEN <<>>
    ELSE LET line == strip(Head(lines))
         IN  IF startswith(line, WEBVTT) \/ contains(line, Arrow) \/ isdigit(line)
             THEN VttFileLines(Tail(lines))
             ELSE IF line = <<>> THEN VttFileLines(Tail(lines))
             ELSE <<line>> \o VttFileLines(Tail(lines))

\* the four transcript.replace calls, in the code's order
CleanVttArtifacts(s) ==
    replace(replace(replace(replace(s, AmpEntity, <<"&">>), LtEntity, <<"<">>),
                    GtEntity, <<">">>), QuotEntity, <<"\"">>)

parse_vtt_file(c) == CleanVttArtifacts(join(VttFileLines(split(c, NL)), <<" ">>))

(***************************************************************************)
(* Subtitle files the conversion is run on.                                *)
(***************************************************************************)
MaxLines == 4

L_Blank == <<>>
L_Timing == <<"0", "0", ":", "0", "1", " ", "-", "-", ">", " ", "0", "0", ":", "0", "2">>
L_Header == <<"W", "E", "B", "V", "T", "T">>
L_Seq == <<"1">>
L_Hello == <<"H", "e", "l", "l", "o", " ", "w", "o", "r", "l", "d", ".">>
L_New == <<"T", "h", "i", "s", " ", "I", "s", " ", "N", "e", "w", ".">>
L_Yeah == <<"Y", "e", "a", "h", ".">>
L_Tagged == <<"<", "c", ">", "H", "e", "l", "l", "o", "<", "/", "c", ">", " ", "w", "o", "r", "l", "d">>
L_Entity == <<"x", " ", "&", "l", "t", ";", " ", "y", " ", "&", "a", "m", "p", ";", " ", "y", " ", "&", "g", "t", ";", " ", "&", "q", "u", "o", "t", ";", "z", "&", "q", "u", "o", "t", ";">>
L_TagNum == <<"<", "b", ">", "2", "<", "/", "b", ">">>
L_Padded == <<" ", " ", "O", "k", "a", "y", ",", "\t", "t", "h", "e", "n", " ", "w", "e", " ", "g", "o", "!", " ", " ">>

LinePool == {L_Blank, L_Timing, L_Header, L_Seq, L_Hello, L_New, L_Yeah,
             L_Tagged, L_Entity, L_Padded}

\* a file of the given lines
FileOf(ls) == join(ls, <<NL>>)

\* files with a cue whose text is a number inside a tag
NumberedFiles == {FileOf(<<L_TagNum>>),
                  FileOf(<<L_Timing, L_TagNum>>),
                  FileOf(<<L_Hello, L_Blank, L_TagNum, L_Blank, L_Yeah>>)}

\* header and metadata lines of a VTT file
L_Note == <<"N", "O", "T", "E", " ", "x">>
L_Style == <<"S", "T", "Y", "L", "E">>
L_Kind == <<"K", "i", "n", "d", ":", " ", "c", "a", "p", "t", "i", "o", "n", "s">>

\* VTT files with header lines before the first timing line and with NOTE
\* and STYLE lines, between cues and inside a cue
HeaderFiles == {FileOf(<<L_Header, L_Kind, L_Blank, L_Timing, L_Hello>>),
                FileOf(<<L_Header, L_Blank, L_Note, L_Blank, L_Timing, L_Hello,
                         L_Blank, L_Style, L_Blank, L_Timing, L_Yeah>>),
                FileOf(<<L_Header, L_Blank, L_Timing, L_Note, L_Hello>>)}

Files == {FileOf(ls) : ls \in UNION {[1..n -> LinePool] : n \in 0..MaxLines}}
            \cup NumberedFiles \cup HeaderFiles

BatchIdle ==
    /\ prog = "" /\ items = <<>> /\ opts = <<>> /\ idx = 0 /\ attempted = <<>>
    /\ successful = 0 /\ clipboard = <<>> /\ sub_langs = <<>>
    /\ subtitle_files = {} /\ converted_files = <<>> /\ data = None
    /\ steps = <<>> /\ sub_dir = {} /\ txt_dir = {} /\ out_file = <<>>

TrackIdle ==
    /\ variant = "none" /\ catalog = <<>> /\ languages = <<>> /\ transcript = None
    /\ attempt = 0 /\ log = <<>> /\ result = None /\ call = 0 /\ prev = None
    /\ waits = <<>>

InitText ==
    /\ pc = "start"
    /\ ext \in {".vtt", ".srt"}
    /\ content \in Files
    /\ plain_text = <<>>
    /\ add_par = FALSE
    /\ out_text = None
    /\ vtt_text = None
    /\ second_pass = None
    /\ TrackIdle
    /\ BatchIdle

\* convert_subtitles_to_text: plain_text = extract_text_from_subtitles(content, str(sub_file))
ExtractText ==
    /\ pc = "start"
    /\ plain_text' = extract_text_from_subtitles(content, ext)
    /\ pc' = "extracted"
    /\ UNCHANGED <<ext, content, add_par, out_text, vtt_text, second_pass>>
    /\ UNCHANGED <<trackVars, batchVars>>

\* a document written whatever the extracted text is
WritesDocument_Always(text) == TRUE

\* "if plain_text:": the document is written only for a text that is not empty
WritesDocument(text) == text # <<>>

\* convert_subtitles_to_text, "if plain_text:": optional paragraph breaks, the
\* write, and converted_files.append(output_file)
ConvertWrite ==
    /\ pc = "extracted"
    /\ WritesDocument(plain_text)
    /\ \E ap \in BOOLEAN :
          /\ add_par' = ap
          /\ out_text' = Some(IF ap THEN add_paragraph_breaks(plain_text) ELSE plain_text)
    /\ converted_files' = Append(converted_files, ".txt")
    /\ pc' = "converted"
    /\ UNCHANGED <<ext, content, plain_text, vtt_text, second_pass>>
    /\ UNCHANGED <<prog, items, opts, idx, attempted, successful, clipboard, sub_langs,
                   subtitle_files, data, steps, sub_dir, txt_dir, out_file>>
    /\ UNCHANGED trackVars

\* convert_subtitles_to_text with empty plain_text: nothing is written
ConvertSkip ==
    /\ pc = "extracted"
    /\ ~WritesDocument(plain_text)
    /\ pc' = "skipped"
    /\ UNCHANGED textVars
    /\ UNCHANGED <<trackVars, batchVars>>

\* get_transcript_with_ytdlp (ytpybak3.py): transcript_text = parse_vtt_file(vtt_file)
ParseVttFile ==
    /\ pc = "start"
    /\ ext = ".vtt"
    /\ vtt_text' = Some(parse_vtt_file(content))
    /\ pc' = "parsed"
    /\ UNCHANGED <<ext, content, plain_text, add_par, out_text, second_pass>>
    /\ UNCHANGED <<trackVars, batchVars>>

\* the extracted lines written back as one-line cues with a blank line
\* between them
AsSingleLineCues(lines) == join(lines, <<NL, NL>>)

\* a second run of extract_text_from_subtitles, on the lines the first run
\* gave for an SRT file, again as an SRT file
ExtractAgain ==
    /\ pc = "extracted"
    /\ ~is_vtt(ext, content)
    /\ second_pass' = Some(extract_text_from_subtitles(
                               AsSingleLineCues(split(plain_text, NL)), ext))
    /\ pc' = "extracted_again"
    /\ UNCHANGED <<ext, content, plain_text, add_par, out_text, vtt_text>>
    /\ UNCHANGED <<trackVars, batchVars>>

\* ytpybak3.py main, "if transcript:": save_transcript copies the text to
\* the clipboard and writes it to the file of -o
SaveParsed ==
    /\ pc = "parsed"
    /\ vtt_text[1] # <<>>
    /\ clipboard' = Append(clipboard, vtt_text[1])
    /\ out_text' = vtt_text
    /\ pc' = "saved"
    /\ UNCHANGED <<ext, content, plain_text, add_par, vtt_text, second_pass>>
    /\ UNCHANGED <<prog, items, opts, idx, attempted, successful, sub_langs,
                   subtitle_files, converted_files, data, steps, sub_dir, txt_dir, out_file>>
    /\ UNCHANGED trackVars

\* ytpybak3.py main, the else branch: "Failed to download transcript" and
\* sys.exit(1)
FailParsed ==
    /\ pc = "parsed"
    /\ vtt_text[1] = <<>>
    /\ pc' = "failed"
    /\ UNCHANGED textVars
    /\ UNCHANGED <<trackVars, batchVars>>

NextText ==
    \/ ExtractText
    \/ ConvertWrite
    \/ ConvertSkip
    \/ ParseVttFile
    \/ ExtractAgain
    \/ SaveParsed
    \/ FailParsed

SpecText == InitText /\ [][NextText]_vars

(***************************************************************************)
(* Properties of the text pipeline (checked under SpecText).                *)
(***************************************************************************)
\* the lines of the extracted text
OutLines == split(plain_text, NL)

\* the lines of the written document
DocLines == split(out_text[1], NL)

TextLines == {L_Hello, L_New, L_Yeah}

\* C1: dedup.  Two consecutive cues with the same joined text give that text
\* once: the lines of the text extract_text_from_subtitles returns never hold
\* the same line twice in a row, and parse_vtt_file gives the text of two
\* equal cues once.
C1_Dedup ==
    /\ pc = "extracted" =>
          \A i \in 1..(Len(OutLines) - 1) : OutLines[i] # OutLines[i + 1]
    /\ pc = "parsed" =>
          \A l \in TextLines :
             content = FileOf(<<L_Timing, l, L_Timing, l>>) => vtt_text = Some(l)

\* C2: paragraph invariant.  The document written after
\* extract_text_from_subtitles and add_paragraph_breaks never has two adjacent
\* empty lines, and neither its first nor its last line is empty.
C2_ParagraphInvariant ==
    (pc = "converted" /\ add_par) =>
        /\ DocLines[1] # <<>>
        /\ DocLines[Len(DocLines)] # <<>>
        /\ \A i \in 1..(Len(DocLines) - 1) : ~(DocLines[i] = <<>> /\ DocLines[i + 1] = <<>>)

\* C2 witness: a document with a paragraph break has been written.
C2_Witness ==
    /\ pc = "converted" /\ add_par
    /\ \E i \in 1..Len(DocLines) : DocLines[i] = <<>>

\* the condition of C3 on lines i and i+1 of ls
C3_Rule(ls, i) ==
    /\ i < Len(ls)
    /\ ls[i] # <<>>
    /\ ls[i][Len(ls[i])] \in {".", "!", "?"}
    /\ strip(ls[i + 1]) # <<>>
    /\ strip(ls[i + 1])[1] \in Upper
    /\ Len(strip(ls[i + 1])) > 10

\* number of breaks the rule of C3 puts before line i
C3_BreaksBefore(ls, i) == Cardinality({k \in 1..(i - 1) : C3_Rule(ls, k)})

\* C3: paragraph rule.  add_paragraph_breaks puts an empty line between line
\* i and line i+1 exactly when line i ends with '.', '!' or '?', trimmed line
\* i+1 starts with an uppercase letter and is longer than 10 characters; all
\* other lines stay adjacent and nothing follows the final line.
C3_ParagraphRule ==
    (pc = "converted" /\ add_par) =>
        /\ Len(DocLines) = Len(OutLines) + C3_BreaksBefore(OutLines, Len(OutLines))
        /\ \A i \in 1..Len(OutLines) :
              /\ DocLines[i + C3_BreaksBefore(OutLines, i)] = OutLines[i]
              /\ C3_Rule(OutLines, i) => DocLines[i + C3_BreaksBefore(OutLines, i) + 1] = <<>>

\* C3 witness: "Hello world." then "This Is New." got a break between them.
C3_Witness ==
    /\ pc = "converted" /\ add_par
    /\ OutLines = <<L_Hello, L_New>>
    /\ DocLines = <<L_Hello, <<>>, L_New>>

C4_HelloWorld == <<"H", "e", "l", "l", "o", " ", "w", "o", "r", "l", "d">>

\* C4: VTT markup stripping.  A text line of a VTT cue that holds inline tags
\* is emitted with the tags removed and the text outside them kept:
\* "<c>Hello</c> world" gives "Hello world"; the line is not dropped because a
\* tag starts or ends it.
C4_VttTagsStripped ==
    (pc = "extracted" /\ is_vtt(ext, content) /\ content = FileOf(<<L_Timing, L_Tagged>>))
        => plain_text = C4_HelloWorld

C5_Decoded == <<"x", " ", "<", " ", "y", " ", "&", " ", "y", " ", ">", " ", "\"", "z", "\"">>

\* C5: entity decoding.  &amp; &lt; &gt; &quot; in cue text come out as the
\* literal characters & < > ", in extract_text_from_subtitles and in
\* parse_vtt_file.
C5_EntitiesDecoded ==
    content = FileOf(<<L_Timing, L_Entity>>) =>
        /\ pc = "extracted" => plain_text = C5_Decoded
        /\ pc = "parsed" => vtt_text = Some(C5_Decoded)

\* C6: timing-line cue boundary.  In the VTT and in the SRT branch a line
\* holding "-->" closes the buffered cue: two text lines with a timing line
\* between them are two output lines.
C6_TimingLineClosesCue ==
    pc = "extracted" =>
        \A a, b \in TextLines :
           /\ (~is_vtt(ext, content) /\ content = FileOf(<<a, L_Timing, b>>))
                 => OutLines = <<a, b>>
           /\ (is_vtt(ext, content) /\ content = FileOf(<<L_Timing, a, L_Timing, b>>))
                 => OutLines = <<a, b>>

\* C19: idempotence of merge.  The lines extract_text_from_subtitles gives,
\* fed back one line per cue with blank lines between, give the same lines
\* again: no line is dropped, altered or merged by the second run.
C19_MergeIdempotent ==
    pc = "extracted_again" => second_pass = Some(plain_text)

\* C20: empty transcript.  Extraction gives a result for every input; when
\* it finds no text line the result is the empty text, and for an empty text
\* no document is written and nothing is counted or copied: the file is
\* skipped by convert_subtitles_to_text, the run of ytpybak3.py fails.
C20_EmptyTranscript ==
    /\ (pc = "extracted" /\ ScanLines(content, ext) = <<>>) => plain_text = <<>>
    /\ (pc \in {"extracted", "extracted_again", "converted", "skipped"}
          /\ plain_text = <<>>) => (/\ pc # "converted"
                                    /\ out_text = None
                                    /\ converted_files = <<>>)
    /\ pc = "converted" => (out_text # None /\ Len(converted_files) = 1)
    /\ (pc \in {"saved", "failed"} /\ vtt_text = Some(<<>>))
          => (pc = "failed" /\ out_text = None /\ clipboard = <<>>)
    /\ pc = "saved" => out_text = vtt_text

\* C20 witness: an SRT file of a sequence number and a timing line only:
\* the text is empty and the file is skipped.
C20_Witness ==
    /\ pc = "skipped"
    /\ ext = ".srt"
    /\ content = FileOf(<<L_Seq, L_Timing>>)
    /\ plain_text = <<>>
    /\ out_text = None
    /\ converted_files = <<>>

(***************************************************************************)
(* The scan of extract_text_from_subtitles, line by line.  ls is the       *)
(* sequence of the stripped lines of the file.                             *)
(***************************************************************************)
\* the lines of the file as the loop sees them: "line = line.strip()"
StrippedLines(c) ==
    LET lines == split(c, NL)
    IN  [i \in 1..Len(lines) |-> strip(lines[i])]

\* which branch of the loop body a stripped line takes
LineKind(line, vtt) ==
    IF vtt /\ (startswith(line, WEBVTT) \/ startswith(line, NOTE) \/ startswith(line, STYLE))
    THEN "header"
    ELSE IF ~vtt /\ isdigit(line) THEN "number"
    ELSE IF contains(line, Arrow) THEN "timing"
    ELSE IF line = <<>> THEN "blank"
    ELSE "text"

\* the cleaned text of a line, by branch
CleanLine(line, vtt) == IF vtt THEN VttCleanLine(line) ELSE SrtCleanLine(line)

\* in_cue when the VTT loop reaches line i: a timing line came before it
\* with no blank line since
InCueAt(ls, i) ==
    \E j \in 1..(i - 1) :
        /\ LineKind(ls[j], TRUE) = "timing"
        /\ \A k \in (j + 1)..(i - 1) : LineKind(ls[k], TRUE) # "blank"

\* line i is accepted as cue text: it is appended to the pending buffer
AcceptedAt(ls, vtt, i) ==
    /\ LineKind(ls[i], vtt) = "text"
    /\ CleanLine(ls[i], vtt) # <<>>
    /\ vtt => VttAcceptsLine(InCueAt(ls, i), ls[i])

Accepted(ls, vtt) == {i \in 1..Len(ls) : AcceptedAt(ls, vtt, i)}

\* a line at which the pending buffer is emitted and emptied
ClosesCue(line, vtt) ==
    \/ LineKind(line, vtt) = "blank"
    \/ vtt /\ LineKind(line, vtt) = "timing"

\* no line between lines i and j closes the cue
SameCue(ls, vtt, i, j) == \A k \in (i + 1)..(j - 1) : ~ClosesCue(ls[k], vtt)

\* the elements of a set of numbers in ascending order
RECURSIVE Ascending(_)
Ascending(S) == IF S = {} THEN <<>> ELSE <<Least(S)>> \o Ascending(S \ {Least(S)})

\* the lines of the set acc of accepted lines that open a cue
CueStarts(ls, vtt, acc) ==
    {i \in acc : \A j \in acc : j < i => ~SameCue(ls, vtt, j, i)}

\* the accepted lines of the cue that line s opens, in scan order
CueMembers(ls, vtt, acc, s) ==
    Ascending({i \in acc : i >= s /\ SameCue(ls, vtt, s, i)})

\* the cues the accepted lines form: every accepted line once, in scan
\* order, a new cue after each closing line
ExpectedCues(ls, vtt) ==
    LET acc == Accepted(ls, vtt)
        starts == Ascending(CueStarts(ls, vtt, acc))
    IN  [n \in 1..Len(starts) |->
            LET m == CueMembers(ls, vtt, acc, starts[n])
            IN  join([k \in 1..Len(m) |-> CleanLine(ls[m[k]], vtt)], <<" ">>)]

\* C22: scan order and flushing.  The text extract_text_from_subtitles
\* returns holds, one per line and in scan order, the cues formed by the
\* accepted lines: every accepted line in exactly one cue, a blank line (and
\* the end of the input) closing the pending cue, no accepted line lost and
\* no empty line emitted.
C22_ScanOrderAndFlush ==
    pc = "extracted" =>
        LET cues == ExpectedCues(StrippedLines(content), is_vtt(ext, content))
            out == OutLines
        IN  /\ plain_text = NormalizeSpaces(join(cues, <<NL>>))
            /\ plain_text # <<>> =>
                   /\ Len(out) = Len(cues)
                   /\ \A k \in 1..Len(out) : out[k] # <<>>
            /\ plain_text = <<>> => cues = <<>>

\* C22 witness: an SRT file of two text lines, a blank line and a last text
\* line: the first two lines are one output line, the last line, pending
\* at the end of the input, is the second.
C22_Witness ==
    /\ pc = "extracted"
    /\ ext = ".srt"
    /\ content = FileOf(<<L_Hello, L_New, L_Blank, L_Yeah>>)
    /\ OutLines = <<L_Hello \o <<" ">> \o L_New, L_Yeah>>

\* the header and metadata lines of the VTT files of the model; L_Kind
\* stands in them only before the first timing line
HeaderMarkers == {L_Header, L_Note, L_Style, L_Kind}

\* no header line of a VTT file and no sequence number of an SRT file is in
\* the text extract_text_from_subtitles returns
C23_InExtract ==
    pc = "extracted" =>
        IF is_vtt(ext, content)
        THEN \A m \in HeaderMarkers : ~contains(plain_text, m)
        ELSE ~contains(plain_text, L_Seq)

\* no header line and no sequence number of a VTT file is in the text
\* parse_vtt_file returns
C23_InParseVtt ==
    pc = "parsed" =>
        /\ \A m \in HeaderMarkers : ~contains(vtt_text[1], m)
        /\ ~contains(vtt_text[1], L_Seq)

\* C23: header and sequence-number lines never become transcript text.  No
\* text returned by extract_text_from_subtitles or by parse_vtt_file holds a
\* line that is a cue sequence number (SRT) or a header or metadata line of
\* the VTT file: the WEBVTT line, NOTE and STYLE lines, other header lines
\* before the first timing line.
C23_HeadersNeverText == C23_InExtract /\ C23_InParseVtt

(***************************************************************************)
(* get_transcript (ytpybak2.py, ytpl.py, ytpi.py)                          *)
(*                                                                         *)
(* catalog is list(transcript_list).  The transcript list of               *)
(* youtube_transcript_api holds at most one manual and one generated track *)
(* per language code and iterates the manual tracks before the generated   *)
(* ones.                                                                   *)
(***************************************************************************)
MaxTracks == 2
MaxPrefs == 2
MaxCalls == 2
MaxRetries == 3

TrackLangs == {"en", "en-US", "es", "id"}
PrefLangs == {"en", "es", "fr", "id"}
Variants == {"ytpybak2", "ytpl", "ytpi"}

Tracks == [language_code : TrackLangs, is_generated : BOOLEAN]

IsCatalog(c) ==
    /\ \A i, j \in 1..Len(c) : i # j => c[i] # c[j]
    /\ \A i, j \in 1..Len(c) : (i < j /\ c[i].is_generated) => c[j].is_generated

Catalogs == {c \in UNION {[1..n -> Tracks] : n \in 0..MaxTracks} : IsCatalog(c)}

\* the -l/--languages option takes one language or more (nargs='+')
Preferences == UNION {[1..n -> PrefLangs] : n \in 1..MaxPrefs}

\* the first track of c that is in the set S, None when there is none
FirstIn(c, S) ==
    IF \E i \in 1..Len(c) : c[i] \in S
    THEN Some(c[Least({i \in 1..Len(c) : c[i] \in S})])
    ELSE None

\* transcript_list.find_generated_transcript([lang]); None stands for the
\* NoTranscriptFound it raises
find_generated_transcript(c, lang) ==
    FirstIn(c, {[language_code |-> lang, is_generated |-> TRUE]})

\* transcript_list.find_transcript([lang]): the manual track of that language
\* code, else the generated one; None stands for NoTranscriptFound
find_transcript(c, lang) ==
    IF FirstIn(c, {[language_code |-> lang, is_generated |-> FALSE]}) # None
    THEN FirstIn(c, {[language_code |-> lang, is_generated |-> FALSE]})
    ELSE find_generated_transcript(c, lang)

\* the preference loop without its break: the last matching language wins
RECURSIVE PreferredTranscript_NoBreak(_, _)
PreferredTranscript_NoBreak(c, langs) ==
    IF langs = <<>> THEN None
    ELSE IF PreferredTranscript_NoBreak(c, Tail(langs)) # None
    THEN PreferredTranscript_NoBreak(c, Tail(langs))
    ELSE find_transcript(c, Head(langs))

\* "for lang in languages: try: transcript = find_transcript([lang]); break"
RECURSIVE PreferredTranscript(_, _)
PreferredTranscript(c, langs) ==
    IF langs = <<>> THEN None
    ELSE IF find_transcript(c, Head(langs)) # None THEN find_transcript(c, Head(langs))
    ELSE PreferredTranscript(c, Tail(langs))

\* available_transcripts = list(transcript_list); available_transcripts[0] if any
FirstAvailable(c) == IF c # <<>> THEN Some(c[1]) ELSE None

\* the fallback step left out
EnglishFallback_Skipped(c) == None

\* the fallback after the preference loop of ytpybak2.py and ytpl.py
EnglishFallback(c) == find_generated_transcript(c, "en")

\* selection of ytpybak2.py: preferred, generated English, first available
SelectYtpybak2(c, langs) ==
    IF PreferredTranscript(c, langs) # None THEN PreferredTranscript(c, langs)
    ELSE IF EnglishFallback(c) # None THEN EnglishFallback(c)
    ELSE FirstAvailable(c)

\* selection of ytpl.py: preferred, generated English, first available
SelectYtpl(c, langs) ==
    IF PreferredTranscript(c, langs) # None THEN PreferredTranscript(c, langs)
    ELSE IF EnglishFallback(c) # None THEN EnglishFallback(c)
    ELSE FirstAvailable(c)

\* selection of ytpi.py: preferred, else find_generated_transcript(['id']),
\* whose exception ends get_transcript
SelectYtpi(c, langs) ==
    IF PreferredTranscript(c, langs) # None THEN PreferredTranscript(c, langs)
    ELSE find_generated_transcript(c, "id")

Select(v, c, langs) ==
    IF v = "ytpybak2" THEN SelectYtpybak2(c, langs)
    ELSE IF v = "ytpl" THEN SelectYtpl(c, langs)
    ELSE SelectYtpi(c, langs)

\* get_transcript going on to the fetch without looking at the selection
AfterSelect_NoCheck(t) == "fetch"

\* where get_transcript continues once the selection is made: without a
\* track every variant returns None before any fetch
AfterSelect(t) == IF t = None THEN "done" ELSE "fetch"

TextIdle ==
    /\ ext = "" /\ content = <<>> /\ plain_text = <<>> /\ add_par = FALSE
    /\ out_text = None /\ vtt_text = None /\ second_pass = None

InitTrack ==
    /\ pc = "start"
    /\ variant \in Variants
    /\ catalog \in Catalogs
    /\ languages \in Preferences
    /\ transcript = None
    /\ attempt = 0
    /\ log = <<>>
    /\ result = None
    /\ call = 1
    /\ prev = None
    /\ waits = <<>>
    /\ TextIdle
    /\ BatchIdle

\* YouTubeTranscriptApi.list_transcripts raises: the outer except returns None
ListFails ==
    /\ pc = "start"
    /\ log' = Append(log, "list_error")
    /\ result' = None
    /\ pc' = "done"
    /\ UNCHANGED <<variant, catalog, languages, transcript, attempt, call, prev, waits>>
    /\ UNCHANGED <<textVars, batchVars>>

\* list_transcripts succeeds and the track is selected
SelectTrack ==
    /\ pc = "start"
    /\ log' = Append(log, "list")
    /\ transcript' = Select(variant, catalog, languages)
    /\ pc' = AfterSelect(transcript')
    /\ attempt' = 0
    /\ result' = None
    /\ UNCHANGED <<variant, catalog, languages, call, prev, waits>>
    /\ UNCHANGED <<textVars, batchVars>>

\* the retry loop sleeping and fetching again after any failure
AfterFailedFetch_RetryAny(outcome, n) ==
    IF n < MaxRetries - 1 THEN "sleep" ELSE "alt"

\* where the retry loop of ytpybak2.py goes after a failed transcript.fetch()
AfterFailedFetch(outcome, n) ==
    IF outcome = "transient" /\ n < MaxRetries - 1 THEN "sleep" ELSE "alt"

\* a successful fetch that does not return: the code after the loop runs
AfterFetch_NoReturn(outcome, n) ==
    IF outcome = "ok" THEN "alt" ELSE AfterFailedFetch(outcome, n)

\* where get_transcript of ytpybak2.py goes after pass n of the loop:
\* "return transcript_data" when the fetch succeeded
AfterFetch(outcome, n) ==
    IF outcome = "ok" THEN "done" ELSE AfterFailedFetch(outcome, n)

\* ytpybak2.py: one pass of "for attempt in range(max_retries)"
FetchRetry ==
    /\ pc = "fetch"
    /\ variant = "ytpybak2"
    /\ \E outcome \in {"ok", "transient", "permanent"} :
          /\ log' = Append(log, IF outcome = "ok" THEN "fetch_ok"
                                ELSE IF outcome = "transient" THEN "fetch_transient"
                                ELSE "fetch_permanent")
          /\ result' = IF outcome = "ok"
                        THEN Some([source |-> "fetch", attempt |-> attempt + 1])
                        ELSE None
          /\ pc' = AfterFetch(outcome, attempt)
    /\ UNCHANGED <<variant, catalog, languages, transcript, attempt, call, prev, waits>>
    /\ UNCHANGED <<textVars, batchVars>>

\* a wait that grows with the number of the failed attempt
Backoff_Growing(n) == 2 * (n + 1)

\* ytpybak2.py: the seconds time.sleep waits after failed pass n of the loop
Backoff(n) == 2

\* ytpybak2.py: time.sleep(2), then the next pass of the loop
Sleep ==
    /\ pc = "sleep"
    /\ log' = Append(log, "sleep")
    /\ waits' = Append(waits, Backoff(attempt))
    /\ attempt' = attempt + 1
    /\ pc' = "fetch"
    /\ UNCHANGED <<variant, catalog, languages, transcript, result, call, prev>>
    /\ UNCHANGED <<textVars, batchVars>>

\* ytpybak2.py: RawApi.get_transcript(video_id, languages=languages)
AlternateMethod ==
    /\ pc = "alt"
    /\ \E ok \in BOOLEAN :
          /\ log' = Append(log, IF ok THEN "alt_ok" ELSE "alt_error")
          /\ result' = IF ok THEN Some([source |-> "alt", attempt |-> 1]) ELSE None
    /\ pc' = "done"
    /\ UNCHANGED <<variant, catalog, languages, transcript, attempt, call, prev, waits>>
    /\ UNCHANGED <<textVars, batchVars>>

\* ytpl.py and ytpi.py: a single transcript.fetch(); an exception returns None
FetchOnce ==
    /\ pc = "fetch"
    /\ variant \in {"ytpl", "ytpi"}
    /\ \E ok \in BOOLEAN :
          /\ log' = Append(log, IF ok THEN "fetch_ok" ELSE "fetch_permanent")
          /\ result' = IF ok THEN Some([source |-> "fetch", attempt |-> 1]) ELSE None
    /\ pc' = "done"
    /\ UNCHANGED <<variant, catalog, languages, transcript, attempt, call, prev, waits>>
    /\ UNCHANGED <<textVars, batchVars>>

\* main calls get_transcript once more with the same video and languages
\* (a rerun of the script); prev keeps the selection of the call that ends
CallAgain ==
    /\ pc = "done"
    /\ call < MaxCalls
    /\ call' = call + 1
    /\ prev' = IF log # <<>> /\ log[1] = "list" THEN Some(transcript) ELSE prev
    /\ transcript' = None
    /\ attempt' = 0
    /\ log' = <<>>
    /\ waits' = <<>>
    /\ result' = None
    /\ pc' = "start"
    /\ UNCHANGED <<variant, catalog, languages>>
    /\ UNCHANGED <<textVars, batchVars>>

NextTrack ==
    \/ ListFails
    \/ SelectTrack
    \/ FetchRetry
    \/ Sleep
    \/ AlternateMethod
    \/ FetchOnce
    \/ CallAgain

SpecTrack == InitTrack /\ [][NextTrack]_vars

(***************************************************************************)
(* Properties of get_transcript (checked under SpecTrack).                 *)
(***************************************************************************)
\* the current call has listed the tracks and made its selection
Selected == log # <<>> /\ log[1] = "list"

HasLanguage(lang) == \E k \in 1..Len(catalog) : catalog[k].language_code = lang

NoPreferredMatch == \A i \in 1..Len(languages) : ~HasLanguage(languages[i])

\* the language codes of the model that begin with "en"
EnglishFamily == {"en", "en-US"}

Manual(lang) == [language_code |-> lang, is_generated |-> FALSE]
Generated(lang) == [language_code |-> lang, is_generated |-> TRUE]

InCatalog(t) == \E k \in 1..Len(catalog) : catalog[k] = t

\* C7: tier 1.  The track selected is that of the first preferred language,
\* in caller order, that has a track with exactly that language code, the
\* manual one when that language has both kinds.
C7_PreferredLanguageOrder ==
    Selected =>
        \A i \in 1..Len(languages) :
           (HasLanguage(languages[i]) /\ \A j \in 1..(i - 1) : ~HasLanguage(languages[j]))
              => /\ transcript # None
                 /\ transcript[1].language_code = languages[i]
                 /\ InCatalog(Manual(languages[i])) => transcript = Some(Manual(languages[i]))

\* C7 witness: tracks {es, manual} and {en, generated}, preference [fr, es]:
\* {es, manual} is selected.
C7_Witness ==
    /\ Selected
    /\ languages = <<"fr", "es">>
    /\ catalog = <<Manual("es"), Generated("en")>>
    /\ transcript = Some(Manual("es"))

\* C8 as stated: with no preferred language matched and some track whose
\* language code begins with "en" (manual or generated, "en" or a regional
\* variant), get_transcript of ytpybak2.py and ytpl.py selects an
\* English-family track.
C8_EnglishFamilyFallback ==
    (/\ Selected
     /\ variant \in {"ytpybak2", "ytpl"}
     /\ NoPreferredMatch
     /\ \E k \in 1..Len(catalog) : catalog[k].language_code \in EnglishFamily)
        => /\ transcript # None
           /\ transcript[1].language_code \in EnglishFamily

\* C8 amended: with no preferred language matched and a generated track whose
\* language code is exactly "en" in the catalog, get_transcript of ytpybak2.py
\* and ytpl.py selects that generated "en" track.
C8_GeneratedEnglishFallback ==
    (/\ Selected
     /\ variant \in {"ytpybak2", "ytpl"}
     /\ NoPreferredMatch
     /\ InCatalog(Generated("en")))
        => transcript = Some(Generated("en"))

\* C8 witness: preference [fr], a manual Spanish track listed before the
\* generated English one: the generated English track is selected.
C8_Witness ==
    /\ Selected
    /\ variant = "ytpl"
    /\ languages = <<"fr">>
    /\ catalog = <<Manual("es"), Generated("en")>>
    /\ transcript = Some(Generated("en"))

\* C9: tier 3.  With no preferred-language track and no English-family track
\* the first track of the catalog is selected, and selection succeeds for
\* every non-empty catalog and every preference list, in every variant.
C9_CatchAll ==
    (Selected /\ catalog # <<>>) =>
        /\ transcript # None
        /\ (/\ NoPreferredMatch
            /\ \A k \in 1..Len(catalog) : catalog[k].language_code \notin EnglishFamily)
              => transcript = Some(catalog[1])

\* C10: empty catalog.  With zero tracks listed get_transcript returns None
\* at once: no fetch, no sleep and no alternate method; and a call on the
\* same catalog and preference list selects what the call before selected.
C10_EmptyCatalog ==
    /\ catalog = <<>> =>
          /\ pc \in {"start", "done"}
          /\ \A i \in 1..Len(log) : log[i] \in {"list", "list_error"}
          /\ result = None
    /\ (Selected /\ prev # None) => transcript = prev[1]

\* C10 witness: the second call on an empty catalog has ended after listing.
C10_Witness ==
    /\ catalog = <<>>
    /\ pc = "done"
    /\ log = <<"list">>
    /\ prev = Some(None)
    /\ result = None

(***************************************************************************)
(* The retry loop and the alternative method of ytpybak2.py.  log holds,   *)
(* in order, the requests and waits of the current call of get_transcript. *)
(***************************************************************************)
FetchEntries == {"fetch_ok", "fetch_transient", "fetch_permanent"}
AltEntries == {"alt_ok", "alt_error"}

\* the positions of log that are primary fetch attempts
FetchAttempts == {i \in 1..Len(log) : log[i] \in FetchEntries}

\* the positions of log that are calls of the alternative method
AltAttempts == {i \in 1..Len(log) : log[i] \in AltEntries}

\* the fetch attempt that precedes the fetch attempt at position i
PrevFetch(i) == CHOOSE j \in FetchAttempts :
                   j < i /\ \A k \in FetchAttempts : k < i => k <= j

\* C11: retry bound.  In one call of get_transcript the selected track is
\* fetched at most 3 times, a fetch after the first comes only right after a
\* fetch that failed with a transient failure, and no fetch follows a
\* permanent failure.
C11_RetryBound ==
    /\ Cardinality(FetchAttempts) <= 3
    /\ \A i \in FetchAttempts :
          (\E j \in FetchAttempts : j < i) => log[PrevFetch(i)] = "fetch_transient"
    /\ \A i \in FetchAttempts :
          log[i] = "fetch_permanent" => \A j \in FetchAttempts : j <= i

\* C11 witness: three fetches, each failed with a transient failure, and the
\* loop has ended.
C11_Witness ==
    /\ pc = "alt"
    /\ log = <<"list", "fetch_transient", "sleep", "fetch_transient", "sleep",
               "fetch_transient">>

\* C12: alternate path.  The alternative method is called at most once per
\* call of get_transcript and only after 3 fetches that all failed with a
\* transient failure; after a fetch that failed with a permanent failure
\* get_transcript ends at once, with no further request.
C12_AlternateOnlyAfterTransients ==
    /\ Cardinality(AltAttempts) <= 1
    /\ (pc = "alt" \/ AltAttempts # {}) =>
          Cardinality({i \in FetchAttempts : log[i] = "fetch_transient"}) = 3
    /\ \A i \in FetchAttempts :
          log[i] = "fetch_permanent" => (i = Len(log) /\ pc = "done")

\* C13: transient recovery.  When the last fetch succeeded, after fewer
\* than 3 transient failures, get_transcript has returned the data of that
\* very attempt, and the alternative method was not called.
C13_TransientRecovery ==
    (log # <<>> /\ log[Len(log)] = "fetch_ok") =>
        /\ pc = "done"
        /\ result = Some([source |-> "fetch", attempt |-> Cardinality(FetchAttempts)])
        /\ AltAttempts = {}
        /\ \A i \in FetchAttempts : i < Len(log) => log[i] = "fetch_transient"

\* C13 witness: two transient failures, then the third fetch succeeds and
\* its data is returned.
C13_Witness ==
    /\ pc = "done"
    /\ log = <<"list", "fetch_transient", "sleep", "fetch_transient", "sleep", "fetch_ok">>
    /\ result = Some([source |-> "fetch", attempt |-> 3])

\* the positions of log that are waits
SleepEntries == {i \in 1..Len(log) : log[i] = "sleep"}

\* C21: backoff.  Every fetch attempt after the first comes right after
\* exactly one wait, which itself comes right after the fetch before; a wait
\* comes only right after a fetch that failed with a transient failure and
\* was not the third one (so none before the first attempt, after a
\* successful attempt, after a permanent failure or after the final failed
\* attempt), is always followed by a fetch, and lasts 2 seconds; at most 2
\* waits happen in one call.
C21_Backoff ==
    /\ \A i \in FetchAttempts :
          (\E j \in FetchAttempts : j < i) =>
              /\ log[i - 1] = "sleep"
              /\ PrevFetch(i) = i - 2
    /\ \A i \in SleepEntries :
          /\ i > 1
          /\ log[i - 1] = "fetch_transient"
          /\ Cardinality({j \in FetchAttempts : j < i}) < 3
          /\ IF i = Len(log) THEN pc = "fetch" ELSE log[i + 1] \in FetchEntries
    /\ Len(waits) = Cardinality(SleepEntries)
    /\ \A k \in 1..Len(waits) : waits[k] = 2
    /\ Len(waits) <= 2

\* C21 witness: three transient failures with a wait of 2 seconds after the
\* first and after the second, none after the third: the alternative method
\* was called next and the call has ended.
C21_Witness ==
    /\ pc = "done"
    /\ log = <<"list", "fetch_transient", "sleep", "fetch_transient", "sleep",
               "fetch_transient", "alt_error">>
    /\ waits = <<2, 2>>

(***************************************************************************)
(* download_subtitles (ytmpy.py): the --sub-langs list.  Language codes    *)
(* are character sequences, so that f"{lang}-auto" is an append.           *)
(***************************************************************************)
EN == <<"e", "n">>
EN_US == <<"e", "n", "-", "U", "S">>
EN_GB == <<"e", "n", "-", "G", "B">>
ES == <<"e", "s">>
AutoSuffix == <<"-", "a", "u", "t", "o">>

\* f"{lang}-auto"
AutoOf(lang) == lang \o AutoSuffix

\* list(dict.fromkeys(s)): the first occurrence of every entry, in order
RECURSIVE DictFromKeys(_)
DictFromKeys(s) ==
    IF s = <<>> THEN <<>>
    ELSE LET d == DictFromKeys(SubSeq(s, 1, Len(s) - 1))
         IN  IF \E k \in 1..Len(d) : d[k] = s[Len(s)] THEN d ELSE Append(d, s[Len(s)])

\* the loop "for lang in languages": two entries for every language
RECURSIVE PreferredEntries(_, _)
PreferredEntries(langs, prefer_auto) ==
    IF langs = <<>> THEN <<>>
    ELSE (IF prefer_auto THEN <<AutoOf(Head(langs)), Head(langs)>>
                         ELSE <<Head(langs), AutoOf(Head(langs))>>)
         \o PreferredEntries(Tail(langs), prefer_auto)

\* sub_langs.extend([...]): the English variants of either mode
EnglishVariants(prefer_auto) ==
    IF prefer_auto THEN <<AutoOf(EN), EN, EN_US, EN_GB>>
                   ELSE <<EN, EN_US, EN_GB, AutoOf(EN)>>

\* the list without the removal of duplicates
BuildSubLangs_NoDedup(langs, prefer_auto) ==
    PreferredEntries(langs, prefer_auto) \o EnglishVariants(prefer_auto)

\* the sub_langs list download_subtitles passes to yt-dlp
BuildSubLangs(langs, prefer_auto) ==
    DictFromKeys(PreferredEntries(langs, prefer_auto) \o EnglishVariants(prefer_auto))

(***************************************************************************)
(* yt-dlp as download_subtitles calls it (--write-sub --write-auto-sub     *)
(* --sub-langs a,b,...): for every requested language code a video has     *)
(* subtitles for, one subtitle file is written: the manual track of that   *)
(* code, or the automatic one when the video has no manual track of it.    *)
(* A video is the set of its tracks.                                       *)
(***************************************************************************)
Videos == {{}, {Generated(EN)}, {Manual(ES), Manual(EN)}, {Manual(ES), Generated(ES)}}

\* what a URL stands for: one video, or a playlist of two videos
UrlPool == {<<v>> : v \in Videos}
              \cup {<<{Manual(ES), Manual(EN)}, {Generated(EN)}>>,
                    <<{Generated(EN)}, {Manual(ES), Generated(ES)}>>,
                    <<{Generated(EN)}, {}>>}

\* the -l/--languages option of ytmpy.py
LanguageLists == {<<EN>>, <<ES>>, <<ES, EN>>, <<EN_US, ES>>, <<ES, ES>>}

HasSubtitles(video, lang) == \E t \in video : t.language_code = lang

\* the entries of sub_langs that name a language the video has subtitles for
RequestedLangs(video, subl) == {subl[k] : k \in {j \in 1..Len(subl) : HasSubtitles(video, subl[j])}}

\* the subtitle files yt-dlp writes for the videos of a URL, before the
\* choice of the format of each
WrittenSubtitles(videos, subl) ==
    UNION {{[video |-> k, lang |-> l, is_generated |-> Manual(l) \notin videos[k]] :
               l \in RequestedLangs(videos[k], subl)} : k \in 1..Len(videos)}

(***************************************************************************)
(* The batch loops: main of ytmpy.py over the URLs (process_url for each)  *)
(* and main of ytpl.py over the videos of a playlist.                      *)
(***************************************************************************)
MaxItems == 2

Progs == {"ytpl", "ytmpy"}

\* the catalogs the provider lists for the videos of a ytpl.py playlist
PlaylistCatalogs == {<<>>, <<Manual("en")>>, <<Manual("es"), Generated("en")>>}

\* args.clipboard / not args.no_clipboard, args.output given, args.prefer_auto
Options == [clipboard : BOOLEAN, output : BOOLEAN, prefer_auto : BOOLEAN]

Step(item, video, lang, step) == [item |-> item, video |-> video, lang |-> lang, step |-> step]

\* one block of the file of -o: the transcript of the video at position
\* item of the playlist, under its "=== TRANSCRIPT FOR VIDEO: ... ===" line
Block(item, video) == [item |-> item, video |-> video]

\* "=== TRANSCRIPTS FOR PLAYLIST: ... ===", the first line of the file
PlaylistHeader == Block(0, 0)

\* what the file of -o may hold when ytpl.py starts: nothing, or the block
\* an earlier run left
ExistingFiles == {<<>>, <<Block(1, 1)>>}

\* the batches of main: items[k] is the video (the URL) at position k.  The
\* video_ids of ytpl.py may hold a video twice: get_playlist_videos_api
\* appends the videoId of every playlist item, get_playlist_videos_scrape
\* removes duplicates
Batches(p) ==
    {[k \in 1..n |-> k] : n \in 1..MaxItems}
       \cup (IF p = "ytpl" THEN {[k \in 1..n |-> 1] : n \in 2..MaxItems} ELSE {})

\* opts.output of ytpl.py is -o without --separate-files
InitBatch ==
    /\ prog \in Progs
    /\ items \in Batches(prog)
    /\ opts \in {o \in Options : (prog = "ytpl" => ~o.prefer_auto)
                                 /\ (prog = "ytmpy" => ~o.output)}
    /\ pc = IF prog = "ytpl" /\ opts.output THEN "create" ELSE "loop"
    /\ out_file \in (IF prog = "ytpl" /\ opts.output THEN ExistingFiles ELSE {<<>>})
    /\ sub_dir = {}
    /\ txt_dir = {}
    /\ languages \in (IF prog = "ytpl" THEN {<<"en">>, <<"fr", "es">>} ELSE LanguageLists)
    /\ idx = 1
    /\ attempted = <<>>
    /\ successful = 0
    /\ clipboard = <<>>
    /\ sub_langs = <<>>
    /\ subtitle_files = {}
    /\ converted_files = <<>>
    /\ data = None
    /\ steps = <<>>
    /\ variant = "none" /\ catalog = <<>> /\ transcript = None
    /\ attempt = 0 /\ log = <<>> /\ result = None /\ call = 0 /\ prev = None
    /\ waits = <<>>
    /\ TextIdle

\* ytpl.py main, playlist mode with -o: the file is opened with 'w' and the
\* playlist header written; when that raises main ends with sys.exit(1)
PlaylistCreateOutput ==
    /\ pc = "create"
    /\ \E ok \in BOOLEAN :
          IF ok THEN /\ out_file' = <<PlaylistHeader>>
                     /\ pc' = "loop"
                ELSE /\ out_file' \in {out_file, <<>>}
                     /\ pc' = "exit"
    /\ UNCHANGED <<prog, items, opts, idx, attempted, successful, clipboard, sub_langs,
                   subtitle_files, converted_files, data, steps, sub_dir, txt_dir>>
    /\ UNCHANGED trackVars
    /\ UNCHANGED textVars

\* a loop that ends at the first item that fails
AfterItem_StopOnFailure(ok) == IF ok THEN "loop" ELSE "batch_done"

\* where main goes once an item is dealt with, whether it succeeded or not:
\* on to the next pass of the loop
AfterItem(ok) == "loop"

\* an item counted only when every requested sink took it
CountsAsSuccess_OnlyIfWritten(clip_ok, file_ok) == clip_ok /\ file_ok

\* ytpl.py main: "successful_transcripts += 1" follows save_transcript
\* whatever the clipboard copy and the file write did
CountsAsSuccess(clip_ok, file_ok) == TRUE

\* process_url up to download_subtitles, for the next URL of main's loop
ProcessUrlDownload ==
    /\ pc = "loop" /\ prog = "ytmpy" /\ idx <= Len(items)
    /\ attempted' = Append(attempted, items[idx])
    /\ sub_langs' = BuildSubLangs(languages, opts.prefer_auto)
    /\ converted_files' = <<>>
    /\ \E ok \in BOOLEAN :
          IF ok
          THEN \E videos \in UrlPool :
                  /\ data' = Some(videos)
                  /\ subtitle_files' = WrittenSubtitles(videos, sub_langs')
                  /\ sub_dir' = WrittenSubtitles(videos, sub_langs')
                  /\ steps' = <<Step(idx, 0, <<>>, "downloaded")>>
                  /\ pc' = "convert"
                  /\ idx' = idx
          ELSE /\ data' = None
               /\ subtitle_files' = {}
               /\ sub_dir' = {}
               /\ steps' = <<Step(idx, 0, <<>>, "download_failed")>>
               /\ pc' = AfterItem(FALSE)
               /\ idx' = idx + 1
    /\ txt_dir' = {}
    /\ UNCHANGED <<prog, items, opts, successful, clipboard, out_file>>
    /\ UNCHANGED <<variant, catalog, languages, transcript, attempt, log, result, call, prev, waits>>
    /\ UNCHANGED textVars

\* what one pass of the loop of convert_subtitles_to_text can come to: the
\* read raises, the extracted text is empty, the write raises, the document
\* is written and the subtitle file removed, or the removal raises
ConvertOutcomes == {"read_error", "empty", "write_error", "converted", "unlink_error"}

\* converted_files.append(output_file) comes after the write and before the
\* unlink
Appended(outcome) == outcome \in {"converted", "unlink_error"}

\* the document is written when "with open(output_file, 'w')" and f.write
\* went through
Written(outcome) == outcome \in {"converted", "unlink_error"}

\* a subtitle file removed whenever it was read, before the text is looked at
Unlinked_AfterRead(outcome) == outcome # "read_error"

\* sub_file.unlink() is the last statement of "if plain_text:", after the
\* write and the append
Unlinked(outcome) == outcome = "converted"

\* convert_subtitles_to_text: one pass of "for sub_file in subtitle_files";
\* the list holds the files in the order Path.glob lists the directory, which
\* is any order (yt-dlp writes .vtt for every track, the first format asked)
ConvertFile ==
    /\ pc = "convert" /\ subtitle_files # {}
    /\ \E f \in subtitle_files, outcome \in ConvertOutcomes :
          /\ subtitle_files' = subtitle_files \ {f}
          /\ converted_files' = IF Appended(outcome) THEN Append(converted_files, f)
                                                     ELSE converted_files
          /\ steps' = Append(steps, Step(idx, f.video, f.lang, outcome))
          /\ txt_dir' = IF Written(outcome) THEN txt_dir \cup {f} ELSE txt_dir
          /\ sub_dir' = IF Unlinked(outcome) THEN sub_dir \ {f} ELSE sub_dir
    /\ UNCHANGED <<pc, prog, items, opts, idx, attempted, successful, clipboard, sub_langs, data,
                   out_file>>
    /\ UNCHANGED trackVars
    /\ UNCHANGED textVars

\* process_url after the conversion (the copy of converted_files[-1]) and
\* main's "total_successful += successful"
ProcessUrlFinish ==
    /\ pc = "convert" /\ subtitle_files = {}
    /\ IF opts.clipboard /\ idx = Len(items) /\ converted_files # <<>>
       THEN LET last == converted_files[Len(converted_files)]
            IN  \E ok \in BOOLEAN :
                   /\ clipboard' = IF ok THEN Append(clipboard, [item |-> idx, video |-> last.video,
                                                                  lang |-> last.lang])
                                          ELSE clipboard
                   /\ steps' = Append(steps, Step(idx, last.video, last.lang,
                                                   IF ok THEN "copied" ELSE "clipboard_error"))
       ELSE UNCHANGED <<clipboard, steps>>
    /\ successful' = successful + Len(converted_files)
    /\ idx' = idx + 1
    /\ pc' = AfterItem(TRUE)
    /\ UNCHANGED <<prog, items, opts, attempted, sub_langs, subtitle_files, converted_files, data,
                   sub_dir, txt_dir, out_file>>
    /\ UNCHANGED trackVars
    /\ UNCHANGED textVars

\* what get_transcript of ytpl.py can meet for a video: list_transcripts
\* raises, fetch raises, fetch gives no entries, fetch gives the entries
FetchOutcomes == {"list_error", "fetch_error", "empty", "ok"}

\* ytpl.py main: the next pass of the loop over video_ids, up to
\* "if transcript:"
PlaylistGetTranscript ==
    /\ pc = "loop" /\ prog = "ytpl" /\ idx <= Len(items)
    /\ attempted' = Append(attempted, items[idx])
    /\ \E cat \in PlaylistCatalogs, outcome \in FetchOutcomes :
          LET t == IF outcome = "list_error" THEN None ELSE SelectYtpl(cat, languages)
              got == t # None /\ outcome = "ok"
          IN  /\ data' = IF got THEN t ELSE None
              /\ steps' = <<Step(idx, 0, <<>>, IF got THEN "acquired" ELSE "no_transcript")>>
              /\ pc' = IF got THEN "save" ELSE AfterItem(FALSE)
              /\ idx' = IF got THEN idx ELSE idx + 1
    /\ UNCHANGED <<prog, items, opts, successful, clipboard, sub_langs, subtitle_files,
                   converted_files, sub_dir, txt_dir, out_file>>
    /\ UNCHANGED trackVars
    /\ UNCHANGED textVars

\* a write that opens the file with 'w': the block replaces what the file held
AfterWrite_Truncating(file, block, ok) == IF ok THEN <<block>> ELSE file

\* save_transcript of ytpl.py: "with open(output_file, 'a')" and f.write put
\* the block at the end of the file; when they raise the file is as before
AfterWrite(file, block, ok) == IF ok THEN Append(file, block) ELSE file

\* ytpl.py main: save_transcript for the video (the clipboard copy only
\* for i == len(video_ids) - 1, the append to the file only with -o) and
\* "successful_transcripts += 1"
PlaylistSave ==
    /\ pc = "save"
    /\ LET copy == idx = Len(items) /\ opts.clipboard
       IN  \E clip_ok \in BOOLEAN, file_ok \in BOOLEAN :
              /\ ~copy => clip_ok
              /\ ~opts.output => file_ok
              /\ clipboard' = IF copy /\ clip_ok
                              THEN Append(clipboard, [item |-> idx, video |-> 0, lang |-> <<>>])
                              ELSE clipboard
              /\ steps' = steps
                     \o (IF copy THEN <<Step(idx, 0, <<>>, IF clip_ok THEN "copied"
                                                           ELSE "clipboard_error")>>
                                 ELSE <<>>)
                     \o (IF opts.output THEN <<Step(idx, 0, <<>>, IF file_ok THEN "written"
                                                                  ELSE "write_error")>>
                                        ELSE <<>>)
              /\ out_file' = IF opts.output
                             THEN AfterWrite(out_file, Block(idx, items[idx]), file_ok)
                             ELSE out_file
              /\ successful' = IF CountsAsSuccess(clip_ok, file_ok) THEN successful + 1
                                                                    ELSE successful
    /\ idx' = idx + 1
    /\ pc' = AfterItem(TRUE)
    /\ UNCHANGED <<prog, items, opts, attempted, sub_langs, subtitle_files, converted_files, data,
                   sub_dir, txt_dir>>
    /\ UNCHANGED trackVars
    /\ UNCHANGED textVars

\* the loop is over: main prints the summary
BatchDone ==
    /\ pc = "loop" /\ idx > Len(items)
    /\ pc' = "batch_done"
    /\ UNCHANGED batchVars
    /\ UNCHANGED trackVars
    /\ UNCHANGED textVars

NextBatch ==
    \/ PlaylistCreateOutput
    \/ ProcessUrlDownload
    \/ ConvertFile
    \/ ProcessUrlFinish
    \/ PlaylistGetTranscript
    \/ PlaylistSave
    \/ BatchDone

SpecBatch == InitBatch /\ [][NextBatch]_vars

(***************************************************************************)
(* Properties of the batch loops (checked under SpecBatch).                *)
(***************************************************************************)
\* C14: batch isolation.  The items are attempted once each, in the caller's
\* order, and the loop ends only when every item has been attempted,
\* whatever failed for the items before.
C14_BatchIsolation ==
    /\ Len(attempted) <= Len(items)
    /\ attempted = SubSeq(items, 1, Len(attempted))
    /\ pc = "loop" => Len(attempted) = idx - 1
    /\ pc \in {"convert", "save"} => Len(attempted) = idx
    /\ pc = "batch_done" => attempted = items

\* C14 witness: the first video of a ytpl.py playlist gave no transcript
\* (nothing is counted) and the second one has been fetched.
C14_Witness ==
    /\ prog = "ytpl"
    /\ attempted = <<1, 2>>
    /\ successful = 0
    /\ pc = "save"
    /\ steps = <<Step(2, 0, <<>>, "acquired")>>

\* C15: clipboard "last item".  The clipboard is written at most once in a
\* batch, with the item at the last position of the caller's sequence: the
\* last video of the playlist (ytpl.py), the transcript of the last video of
\* the last URL (ytmpy.py).
C15_ClipboardLastItem ==
    /\ Len(clipboard) <= 1
    /\ \A k \in 1..Len(clipboard) :
          /\ clipboard[k].item = Len(items)
          /\ prog = "ytmpy" => clipboard[k].video = Len(data[1])

\* the position of entry e in the list subl
Pos(subl, e) == Least({k \in 1..Len(subl) : subl[k] = e})

\* the sub_langs entry of the track yt-dlp takes first for the video: the
\* first entry of the list the video has subtitles for
HighestPriority(video, subl) ==
    subl[Least({k \in 1..Len(subl) : HasSubtitles(video, subl[k])})]

\* C17: exactly one track.  For every video at most one subtitle track is
\* converted and counted, and it is the one of the first entry of the
\* priority list the video has a track for.
C17_ExactlyOneTrack ==
    prog = "ytmpy" =>
        \A a \in 1..Len(converted_files) :
           /\ \A b \in 1..Len(converted_files) :
                 converted_files[a].video = converted_files[b].video => a = b
           /\ converted_files[a].lang
                 = HighestPriority(data[1][converted_files[a].video], sub_langs)

\* the steps that are a failed file write or a failed clipboard copy
SinkErrors == {"clipboard_error", "write_error"}

\* the positions of steps' that a step of the save or convert code adds
NewSteps == IF pc \in {"save", "convert"} THEN (Len(steps) + 1)..Len(steps') ELSE {}

\* C16 as stated: a failed file write or clipboard copy is only logged, and
\* the item it happened for is still counted as a success: the video by
\* successful_transcripts, the converted file by converted_files and
\* total_successful.
C16_SinkFailuresCounted ==
    [][\A k \in NewSteps :
          steps'[k].step \in SinkErrors =>
             IF pc = "save" THEN successful' = successful + 1
             ELSE IF steps'[k].step = "write_error"
                  THEN Len(converted_files') = Len(converted_files) + 1
                  ELSE successful' = successful + Len(converted_files)]_vars

\* C16 amended: a failed clipboard copy, and in save_transcript of ytpl.py a
\* failed file write, is only logged: the loop goes on and the item is
\* counted as a success all the same.  A failed file write in
\* convert_subtitles_to_text of ytmpy.py is logged too and the conversion
\* goes on with the next file, but that file is not counted.
C16_SinkFailuresLogged ==
    [][\A k \in NewSteps :
          steps'[k].step \in SinkErrors =>
             /\ pc = "save" => (successful' = successful + 1 /\ pc' = "loop")
             /\ (pc = "convert" /\ steps'[k].step = "clipboard_error")
                   => (successful' = successful + Len(converted_files) /\ pc' = "loop")
             /\ (pc = "convert" /\ steps'[k].step = "write_error")
                   => (converted_files' = converted_files /\ pc' = "convert")]_vars

\* C16 witness: the only video of a ytpl.py playlist is counted although
\* both the clipboard copy and the file write failed.
C16_Witness ==
    /\ prog = "ytpl"
    /\ pc = "loop"
    /\ successful = 1
    /\ steps = <<Step(1, 0, <<>>, "acquired"), Step(1, 0, <<>>, "clipboard_error"),
                 Step(1, 0, <<>>, "write_error")>>

\* the entry asks for the automatic captions of its language
IsAutoEntry(e) == endswith(e, AutoSuffix)

\* the language of an entry or language code: its part before the first "-"
\* ("en" for en, en-US, en-GB and en-auto)
BaseLanguage(e) ==
    IF \E k \in 1..Len(e) : e[k] = "-"
    THEN SubSeq(e, 1, Least({k \in 1..Len(e) : e[k] = "-"}) - 1)
    ELSE e

\* the two entries the loop adds for a preferred language
EntriesOf(lang) == {lang, AutoOf(lang)}

EntrySet(subl) == {subl[k] : k \in 1..Len(subl)}

\* the entries of the preferred languages, which keep the caller's order,
\* come before the English variants that were appended, and nothing is
\* listed twice
WellOrdered(subl) ==
    /\ \A a, b \in 1..Len(subl) : a # b => subl[a] # subl[b]
    /\ \A m, n \in 1..Len(languages) :
          (m < n /\ \A k \in 1..(n - 1) : languages[k] # languages[n])
             => \A x \in EntriesOf(languages[m]), y \in EntriesOf(languages[n]) :
                   Pos(subl, x) < Pos(subl, y)
    /\ \A m \in 1..Len(languages) :
          BaseLanguage(languages[m]) # EN
             => \A x \in EntriesOf(languages[m]),
                   y \in EntrySet(subl) \ UNION {EntriesOf(languages[k]) : k \in 1..Len(languages)} :
                   Pos(subl, x) < Pos(subl, y)

\* C18: auto-first inversion.  The list built with --prefer-auto and the one
\* built without hold the same entries, and two entries change their order
\* between the two lists only when they are the manual and the automatic
\* entry of one language (en, en-US and en-GB being one language, English);
\* in the list of either mode the preferred languages keep the caller's
\* order, a preferred language that is not English comes before the appended
\* English variants, and no entry is listed twice.
C18_AutoFirstInversion ==
    (Len(steps) = 1 /\ steps[1].step \in {"downloaded", "download_failed"}) =>
        LET other == BuildSubLangs(languages, ~opts.prefer_auto)
        IN  /\ EntrySet(sub_langs) = EntrySet(other)
            /\ Len(sub_langs) = Len(other)
            /\ \A a, b \in EntrySet(sub_langs) :
                  (Pos(sub_langs, a) < Pos(sub_langs, b) /\ Pos(other, b) < Pos(other, a))
                     => /\ BaseLanguage(a) = BaseLanguage(b)
                        /\ IsAutoEntry(a) # IsAutoEntry(b)
            /\ \A m \in 1..Len(languages) :
                  opts.prefer_auto <=> Pos(sub_langs, AutoOf(languages[m]))
                                         < Pos(sub_langs, languages[m])
            /\ WellOrdered(sub_langs)
            /\ WellOrdered(other)

\* C18 witness: --prefer-auto with -l es en: es-auto, es, en-auto, en, then
\* the English variants not yet listed.
C18_Witness ==
    /\ steps = <<Step(1, 0, <<>>, "downloaded")>>
    /\ opts.prefer_auto
    /\ languages = <<ES, EN>>
    /\ sub_langs = <<AutoOf(ES), ES, AutoOf(EN), EN, EN_US, EN_GB>>

(***************************************************************************)
(* The file of -o of ytpl.py in playlist mode, without --separate-files.   *)
(***************************************************************************)
\* the file holds the playlist header and then blocks of videos of the
\* playlist already dealt with, at increasing playlist positions
InIndexOrder(file, position) ==
    /\ file # <<>>
    /\ file[1] = PlaylistHeader
    /\ \A i \in 2..Len(file) :
          /\ file[i].item \in 1..Len(items)
          /\ file[i].item < position
          /\ file[i].video = items[file[i].item]
    /\ \A i, j \in 2..Len(file) : i < j => file[i].item < file[j].item

\* the file holds a block for the item of the steps st exactly when the
\* transcript of that item was obtained and written
BlocksMatchSteps(file, st) ==
    \A k \in 1..Len(st) :
       /\ st[k].step = "written" => file[Len(file)].item = st[k].item
       /\ st[k].step \in {"write_error", "no_transcript"}
             => \A i \in 2..Len(file) : file[i].item # st[k].item

\* no two blocks of the file are of the same video
EachVideoOnce(file) == \A i, j \in 2..Len(file) : i < j => file[i].video # file[j].video

\* the file changes by the one truncation to the header, before any video
\* is processed, and by appending one block in save_transcript
TruncatedOnceThenAppended ==
    /\ pc' # "create"
    /\ out_file' # out_file =>
          IF pc = "create"
          THEN attempted = <<>> /\ (out_file' = <<PlaylistHeader>> \/ pc' = "exit")
          ELSE /\ pc = "save"
               /\ out_file' = Append(out_file, Block(idx, items[idx]))

\* C24 as stated: single-file playlist output ordering.  The file of -o is
\* truncated once, to the playlist header, before any video is processed
\* and only appended to afterwards; it holds the header and then one block
\* per video whose transcript was obtained and written, in playlist index
\* order, each video at most once.
C24_SingleFileOrdering ==
    [][(prog = "ytpl" /\ opts.output) =>
          /\ TruncatedOnceThenAppended
          /\ pc' \in {"loop", "save", "batch_done"} =>
                /\ InIndexOrder(out_file', idx')
                /\ BlocksMatchSteps(out_file', steps')
                /\ EachVideoOnce(out_file')]_vars

\* C24 amended: the file of -o is truncated once, to the playlist header,
\* before any video is processed and only appended to afterwards; it holds
\* the header and then one block per playlist position whose transcript was
\* obtained and written, in playlist index order, each position at most
\* once (a video that stands at two positions of video_ids has a block for
\* each).
C24_SingleFileByPosition ==
    [][(prog = "ytpl" /\ opts.output) =>
          /\ TruncatedOnceThenAppended
          /\ pc' \in {"loop", "save", "batch_done"} =>
                /\ InIndexOrder(out_file', idx')
                /\ BlocksMatchSteps(out_file', steps')]_vars

\* C24 witness: a playlist that lists video 1 at both positions has been
\* processed: the file holds the header and one block for each position.
C24_Witness ==
    /\ pc = "batch_done"
    /\ prog = "ytpl"
    /\ items = <<1, 1>>
    /\ out_file = <<PlaylistHeader, Block(1, 1), Block(2, 1)>>

(***************************************************************************)
(* The output directory of convert_subtitles_to_text.                      *)
(***************************************************************************)
\* the subtitle files the download of the current URL wrote
Downloaded == WrittenSubtitles(data[1], sub_langs)

\* the subtitle file a step of the conversion is about
FileOfStep(s) == CHOOSE f \in Downloaded : f.video = s.video /\ f.lang = s.lang

\* the positions of steps that are passes of the conversion loop
ConvertSteps == {k \in 1..Len(steps) : steps[k].step \in ConvertOutcomes}

\* C25: subtitle file removal.  A subtitle file is gone from the directory
\* only when its text document was written; a file whose text was empty or
\* whose read or write raised is still there, has no entry in
\* converted_files and is not counted; every subtitle file of the directory
\* gets its pass of the loop whatever the passes before it came to; every
\* entry of converted_files has its text document.
C25_SubtitleFileRemoval ==
    (prog = "ytmpy" /\ data # None) =>
        /\ \A f \in Downloaded : f \notin sub_dir => f \in txt_dir
        /\ \A k \in ConvertSteps :
              steps[k].step \in {"empty", "read_error", "write_error"} =>
                  /\ FileOfStep(steps[k]) \in sub_dir
                  /\ FileOfStep(steps[k]) \notin txt_dir
                  /\ \A n \in 1..Len(converted_files) :
                        converted_files[n] # FileOfStep(steps[k])
        /\ Downloaded = subtitle_files \cup {FileOfStep(steps[k]) : k \in ConvertSteps}
        /\ Cardinality(Downloaded) = Cardinality(subtitle_files) + Cardinality(ConvertSteps)
        /\ pc # "convert" => subtitle_files = {}
        /\ \A n \in 1..Len(converted_files) : converted_files[n] \in txt_dir
        /\ pc # "convert" => successful >= Len(converted_files)

\* C25 witness: the write of the first subtitle file raised, the second
\* file was converted and removed: the first is still in the directory and
\* only the second is in converted_files.
C25_Witness ==
    /\ prog = "ytmpy"
    /\ Len(steps) = 3
    /\ steps[2].step = "write_error"
    /\ steps[3].step = "converted"
    /\ sub_dir = {FileOfStep(steps[2])}
    /\ txt_dir = {FileOfStep(steps[3])}
    /\ converted_files = <<FileOfStep(steps[3])>>
====
